---- MODULE Spec2Model ----
(***************************************************************************)
(* Model of SunshineMonitorTool.py: the resolution selector                *)
(* (find_closest_resolution), the maximum finder (get_max_resolution) and  *)
(* the command dispatcher (process_monitor_settings) over a display that   *)
(* is seen only through its enumerated modes, its current mode and the     *)
(* outcome of the apply call.                                              *)
(*                                                                         *)
(* Numbers.  Pixel counts are integers.  Aspect ratios are Python floats;  *)
(* they are kept here as exact fractions <<num, den>> and compared by      *)
(* cross multiplication.  Within the bounds below two different exact      *)
(* values are further apart than any rounding error, so a float            *)
(* comparison can differ from the exact one only where two ratio           *)
(* differences are exactly equal although they come from different         *)
(* quotients: there the rounded values may compare either way, and the     *)
(* model lets either happen (the parameter rnd of the selector).           *)
(***************************************************************************)
EXTENDS Integers, Sequences, FiniteSets, TLC

\* ------------------------------------------------------------------ bounds
MaxDim == 3       \* widths and heights handed to the selector: 1..MaxDim
MaxLen == 4       \* length of the list handed to the selector
MaxPels == 2      \* widths and heights of the display's modes, and of --width/--height
MaxRefresh == 2   \* refresh rates of the display's modes, and of --refresh
MaxModes == 2     \* number of modes the display enumerates

\* Two resolutions whose ratios differ by 1/132: within the 1% tolerance
\* without being equal.
ExtraRes == {<<10, 11>>, <<11, 12>>}

\* ------------------------------------------------------- program constants
TolNum == 1       \* ratio_diff < 0.01
TolDen == 100
X == 10           \* the character 'x' of "WxH"; 0..9 are the decimal digits
None == <<>>      \* Python's None (an absent option, no mode found)
Inf == <<1, 0>>   \* float('inf') as a fraction
FHD == <<1920, 1080, 60>>

\* ------------------------------------------------------------ small tools
Range(s) == {s[i] : i \in 1..Len(s)}

Abs(n) == IF n < 0 THEN -n ELSE n

\* a/b < c/d for fractions with b, d >= 0 (d = 0: infinity)
FracLess(a, b) == a[1] * b[2] < b[1] * a[2]

FracEq(a, b) == a[1] * b[2] = b[1] * a[2]

\* All orders of a finite set, as sequences.
Orders(S) ==
  {s \in [1..Cardinality(S) -> S] : \A i, j \in 1..Cardinality(S) : i # j => s[i] # s[j]}

\* a quotient w/h is exact in binary floating point when h is a power of two
Dyadic(n) == n \in {1, 2, 4, 8, 16}

\* ------------------------------------------------- "WxH" strings and back
RECURSIVE Str(_)
\* str(n): the decimal digits of n >= 0
Str(n) == IF n < 10 THEN <<n>> ELSE Str(n \div 10) \o <<n % 10>>

\* f"{width}x{height}"
ModeStr(width, height) == Str(width) \o <<X>> \o Str(height)

RECURSIVE IntOf(_)
\* int(s) of a digit string
IntOf(s) == IF s = <<>> THEN 0 ELSE 10 * IntOf(SubSeq(s, 1, Len(s) - 1)) + s[Len(s)]

\* mode.split('x'): the two parts around the first 'x'
SplitX(mode) ==
  LET k == CHOOSE i \in 1..Len(mode) : mode[i] = X /\ \A j \in 1..(i - 1) : mode[j] # X
  IN  <<SubSeq(mode, 1, k - 1), SubSeq(mode, k + 1, Len(mode))>>

\* width, height = map(int, mode.split('x'))
ParseMode(mode) == <<IntOf(SplitX(mode)[1]), IntOf(SplitX(mode)[2])>>

\* -------------------------------------------------- find_closest_resolution
\* ratio_diff = abs(width / height - target_width / target_height)
RatioDiff(mode, target_width, target_height) ==
  LET wh == ParseMode(mode)
  IN  <<Abs(wh[1] * target_height - target_width * wh[2]), wh[2] * target_height>>

\* abs(current_pixels - target_pixels)
PixelDiff(mode, target_width, target_height) ==
  LET wh == ParseMode(mode)
  IN  Abs(wh[1] * wh[2] - target_width * target_height)

\* if ratio_diff < 0.01
RatioMatches(mode, target_width, target_height) ==
  FracLess(RatioDiff(mode, target_width, target_height), <<TolNum, TolDen>>)

\* RatioDiffLess with the comparison turned round.
RatioDiffLess_Reversed(mode, closest_mode, min_ratio_diff, target_width, target_height, rnd) ==
  FracLess(min_ratio_diff, RatioDiff(mode, target_width, target_height))

\* ratio_diff < min_ratio_diff on floats.  rnd is the set of modes whose
\* rounded ratio_diff falls below an exactly equal one of another quotient.
RatioDiffLess(mode, closest_mode, min_ratio_diff, target_width, target_height, rnd) ==
  LET rd == RatioDiff(mode, target_width, target_height)
      a  == ParseMode(mode)
      b  == ParseMode(closest_mode)
  IN  \/ FracLess(rd, min_ratio_diff)
      \/ /\ min_ratio_diff # Inf
         /\ FracEq(rd, min_ratio_diff)
         /\ a[1] * b[2] # b[1] * a[2]
         /\ ~(Dyadic(a[2]) /\ Dyadic(b[2]) /\ Dyadic(target_height))
         /\ mode \in rnd

\* The modes of a scan whose ratio_diff ties exactly with that of a mode of
\* another quotient: the only ones rounding can make a difference for.
TieProne(modes, target_width, target_height) ==
  {m \in Range(modes) :
     \E n \in Range(modes) :
       /\ FracEq(RatioDiff(m, target_width, target_height),
                 RatioDiff(n, target_width, target_height))
       /\ ParseMode(m)[1] * ParseMode(n)[2] # ParseMode(n)[1] * ParseMode(m)[2]
       /\ ~(Dyadic(ParseMode(m)[2]) /\ Dyadic(ParseMode(n)[2]) /\ Dyadic(target_height))}

\* ScanStep that keeps the first ratio-matching mode it meets.
ScanStep_KeepFirstMatch(st, mode, target_width, target_height, rnd) ==
  LET ratio_diff == RatioDiff(mode, target_width, target_height)
      take == [closest_mode |-> mode, min_ratio_diff |-> ratio_diff]
  IN  IF RatioMatches(mode, target_width, target_height)
      THEN IF st.closest_mode = None THEN take ELSE st
      ELSE IF \/ st.closest_mode = None
              \/ RatioDiffLess(mode, st.closest_mode, st.min_ratio_diff,
                               target_width, target_height, rnd)
           THEN take
           ELSE st

\* The body of the second loop: st = [closest_mode, min_ratio_diff].
ScanStep(st, mode, target_width, target_height, rnd) ==
  LET ratio_diff == RatioDiff(mode, target_width, target_height)
      take == [closest_mode |-> mode, min_ratio_diff |-> ratio_diff]
  IN  IF RatioMatches(mode, target_width, target_height)
      THEN IF st.closest_mode = None
           THEN take
           ELSE IF PixelDiff(mode, target_width, target_height)
                     < PixelDiff(st.closest_mode, target_width, target_height)
                THEN take
                ELSE st
      ELSE IF \/ st.closest_mode = None
              \/ RatioDiffLess(mode, st.closest_mode, st.min_ratio_diff,
                               target_width, target_height, rnd)
           THEN take
           ELSE st

RECURSIVE Scan(_, _, _, _, _)
\* for mode in modes_to_check: ...
Scan(modes, st, target_width, target_height, rnd) ==
  IF modes = <<>>
  THEN st
  ELSE Scan(Tail(modes), ScanStep(st, Head(modes), target_width, target_height, rnd),
            target_width, target_height, rnd)

\* The first loop: the modes no larger than the target in both dimensions.
SmallerModes(available_modes, target_width, target_height) ==
  SelectSeq(available_modes,
            LAMBDA mode : /\ ParseMode(mode)[1] <= target_width
                          /\ ParseMode(mode)[2] <= target_height)

\* ModesToCheck without the restriction to the smaller modes.
ModesToCheck_NoShrink(available_modes, target_width, target_height) == available_modes

\* ModesToCheck without the fallback to the whole list.
ModesToCheck_NoFallback(available_modes, target_width, target_height) ==
  SmallerModes(available_modes, target_width, target_height)

\* modes_to_check = smaller_modes if smaller_modes else available_modes
ModesToCheck(available_modes, target_width, target_height) ==
  IF SmallerModes(available_modes, target_width, target_height) # <<>>
  THEN SmallerModes(available_modes, target_width, target_height)
  ELSE available_modes

find_closest_resolution(available_modes, target_width, target_height, rnd) ==
  Scan(ModesToCheck(available_modes, target_width, target_height),
       [closest_mode |-> None, min_ratio_diff |-> Inf],
       target_width, target_height, rnd).closest_mode

\* ------------------------------------------------------- the display layer
\* get_primary_monitor(): the device name, or None
get_primary_monitor(prim) == IF prim THEN <<"DISPLAY1">> ELSE None

\* get_supported_modes(): every mode EnumDisplaySettings yields before it stops
get_supported_modes(dmodes) == dmodes

\* get_current_resolution(): the current mode, (0, 0, 0) when there is no
\* primary monitor or the query fails (cur is then (0, 0, 0) itself)
get_current_resolution(prim, cur) ==
  IF get_primary_monitor(prim) = None THEN <<0, 0, 0>> ELSE cur

\* change_display_settings(): the modes handed to ChangeDisplaySettingsEx and
\* the value returned; ok is DISP_CHANGE_SUCCESSFUL
change_display_settings(prim, width, height, refresh_rate, ok) ==
  IF get_primary_monitor(prim) = None
  THEN [applied |-> <<>>, result |-> FALSE]
  ELSE [applied |-> <<<<width, height, refresh_rate>>>>, result |-> ok]

\* ------------------------------------------------------- get_max_resolution
\* The body of the loop: mx = <<max_width, max_height, max_refresh>>.
MaxStep(mx, settings) ==
  IF settings[1] * settings[2] > mx[1] * mx[2]
  THEN settings
  ELSE IF settings[1] * settings[2] = mx[1] * mx[2] /\ settings[3] > mx[3]
       THEN <<mx[1], mx[2], settings[3]>>
       ELSE mx

RECURSIVE MaxScan(_, _)
MaxScan(dmodes, mx) ==
  IF dmodes = <<>> THEN mx ELSE MaxScan(Tail(dmodes), MaxStep(mx, Head(dmodes)))

get_max_resolution(prim, dmodes) ==
  IF get_primary_monitor(prim) = None THEN <<0, 0, 0>> ELSE MaxScan(dmodes, <<0, 0, 0>>)

\* ------------------------------------------------- process_monitor_settings
\* Python truth of an optional integer: None and 0 are false
Truthy(opt) == opt # None /\ opt[1] # 0

\* key=lambda x: (x[0] * x[1], x[2])
KeyLeq(a, b) == a[1] * a[2] < b[1] * b[2] \/ (a[1] * a[2] = b[1] * b[2] /\ a[3] <= b[3])

RECURSIVE SortModes(_)
\* modes.sort(key=...): stable, ascending
SortModes(modes) ==
  IF modes = <<>>
  THEN <<>>
  ELSE LET init == SortModes(SubSeq(modes, 1, Len(modes) - 1))
           last == modes[Len(modes)]
           k    == Cardinality({i \in 1..Len(init) : KeyLeq(init[i], last)})
       IN  SubSeq(init, 1, k) \o <<last>> \o SubSeq(init, k + 1, Len(init))

\* set(f"{width}x{height}" for width, height, _ in modes)
UniqueResolutions(modes) == {ModeStr(modes[i][1], modes[i][2]) : i \in 1..Len(modes)}

\* [refresh for w, h, refresh in modes if w == width and h == height]
SupportedRefreshes(modes, width, height) ==
  LET sel == SelectSeq(modes, LAMBDA m : m[1] = width /\ m[2] = height)
  IN  [i \in 1..Len(sel) |-> sel[i][3]]

SeqMax(s) == CHOOSE x \in Range(s) : \A y \in Range(s) : y <= x

\* FallbackRefresh that never looks at the current refresh rate.
FallbackRefresh_AlwaysMax(supported_refreshes, current_refresh) == SeqMax(supported_refreshes)

\* The refresh rate used when --refresh is absent (or 0).
FallbackRefresh(supported_refreshes, current_refresh) ==
  IF current_refresh \notin Range(supported_refreshes)
  THEN SeqMax(supported_refreshes)
  ELSE current_refresh

\* What a run that did nothing leaves behind.
Quiet(a) ==
  [enum_calls |-> 0, current_calls |-> 0, applied |-> <<>>, printed |-> <<>>,
   available_modes |-> <<>>, target_width |-> 0, target_height |-> 0,
   closest_mode |-> None, args |-> a]

\* if args.width and args.height: ...   (the selector pipeline)
CustomSettings(a, prim, dmodes, cur, uniq, rnd, ok) ==
  LET modes == SortModes(get_supported_modes(dmodes))
      closest_mode == find_closest_resolution(uniq, a.width[1], a.height[1], rnd)
      base == [Quiet(a) EXCEPT !.enum_calls = 1, !.available_modes = uniq,
                               !.target_width = a.width[1],
                               !.target_height = a.height[1],
                               !.closest_mode = closest_mode]
  IN  IF closest_mode # None
      THEN LET wh == ParseMode(closest_mode)
               supported_refreshes == SupportedRefreshes(modes, wh[1], wh[2])
               asked == Truthy(a.refresh)
               refresh == IF asked
                          THEN a.refresh[1]
                          ELSE FallbackRefresh(supported_refreshes,
                                               get_current_resolution(prim, cur)[3])
               notice == IF wh[1] # a.width[1] \/ wh[2] # a.height[1]
                         THEN <<"not_supported", "using_closest", "supported_refreshes">>
                         ELSE <<>>
               chg == change_display_settings(prim, wh[1], wh[2], refresh, ok)
           IN  [base EXCEPT !.current_calls = IF asked THEN 0 ELSE 1,
                            !.args = [a EXCEPT !.refresh = <<refresh>>],
                            !.applied = chg.applied,
                            !.printed = notice \o
                                        <<IF chg.result THEN "set_ok" ELSE "set_failed">>]
      ELSE [base EXCEPT !.printed = <<"no_suitable_mode">>]

process_monitor_settings(a, prim, dmodes, cur, uniq, rnd, ok) ==
  IF get_primary_monitor(prim) = None
  THEN [Quiet(a) EXCEPT !.printed = <<"no_primary">>]
  ELSE IF a.list
  THEN [Quiet(a) EXCEPT !.enum_calls = 1, !.printed = <<"modes_listed">>]
  ELSE IF (Truthy(a.width) \/ Truthy(a.height)) /\ ~(Truthy(a.width) /\ Truthy(a.height))
  THEN [Quiet(a) EXCEPT !.printed = <<"need_width_and_height">>]
  ELSE IF a.current
  THEN [Quiet(a) EXCEPT !.current_calls = 1, !.printed = <<"current">>]
  ELSE IF a.max
  THEN LET mx  == get_max_resolution(prim, dmodes)
           chg == change_display_settings(prim, mx[1], mx[2], mx[3], ok)
       IN  [Quiet(a) EXCEPT !.enum_calls = 1, !.applied = chg.applied,
                            !.printed = <<"max", IF chg.result THEN "set_ok" ELSE "set_failed">>]
  ELSE IF a.fhd
  THEN LET chg == change_display_settings(prim, FHD[1], FHD[2], FHD[3], ok)
       IN  [Quiet(a) EXCEPT !.applied = chg.applied,
                            !.printed = <<IF chg.result THEN "set_ok" ELSE "set_failed">>]
  ELSE IF Truthy(a.width) /\ Truthy(a.height)
  THEN CustomSettings(a, prim, dmodes, cur, uniq, rnd, ok)
  ELSE Quiet(a)

\* ------------------------------------------------------------ the machine
VARIABLES
  entry,            \* the function that is called
  done,             \* it has returned
  available_modes,  \* the list handed to find_closest_resolution,
  target_width,     \*   and the target handed to it (0: it was not called)
  target_height,
  closest_mode,     \* what find_closest_resolution returned
  primary,          \* the display: there is a primary monitor,
  display_modes,    \*   the modes it enumerates, in enumeration order,
  current,          \*   and what the current-mode query yields
  args,             \* the parsed command line
  max_result,       \* what get_max_resolution returned
  enum_calls,       \* mode enumerations made by process_monitor_settings
  current_calls,    \* current-mode queries made by it
  applied,          \* the modes it handed to ChangeDisplaySettingsEx
  printed           \* the messages it printed

vars == <<entry, done, available_modes, target_width, target_height, closest_mode,
          primary, display_modes, current, args, max_result,
          enum_calls, current_calls, applied, printed>>

\* resolutions the selector is tried on
Resolutions == ((1..MaxDim) \X (1..MaxDim)) \cup ExtraRes

ResStrings == {ModeStr(r[1], r[2]) : r \in Resolutions}

\* lists of distinct "WxH" strings, as list(set(...)) produces them
ResLists ==
  UNION {{s \in [1..n -> ResStrings] : \A i, j \in 1..n : i # j => s[i] # s[j]} :
         n \in 0..MaxLen}

\* modes of the display, and what it may enumerate (duplicates included)
Modes == (1..MaxPels) \X (1..MaxPels) \X (1..MaxRefresh)

ModeLists == UNION {[1..n -> Modes] : n \in 0..MaxModes}

Options(S) == {None} \cup {<<n>> : n \in S}

Args ==
  [list : BOOLEAN, current : BOOLEAN, max : BOOLEAN, fhd : BOOLEAN,
   width : Options(0..MaxPels), height : Options(0..MaxPels),
   refresh : Options(0..MaxRefresh)]

NoArgs ==
  [list |-> FALSE, current |-> FALSE, max |-> FALSE, fhd |-> FALSE,
   width |-> None, height |-> None, refresh |-> None]

Untouched ==
  /\ done = FALSE
  /\ closest_mode = None
  /\ max_result = <<0, 0, 0>>
  /\ enum_calls = 0
  /\ current_calls = 0
  /\ applied = <<>>
  /\ printed = <<>>

NoDisplay == primary = FALSE /\ display_modes = <<>> /\ current = <<0, 0, 0>>

\* the display: none, or one with its modes and its current mode (the query
\* of the current mode may fail)
SomeDisplay ==
  \/ NoDisplay
  \/ /\ primary = TRUE
     /\ display_modes \in ModeLists
     /\ current \in Range(display_modes) \cup {<<0, 0, 0>>}

InitSelector ==
  /\ entry = "find_closest_resolution"
  /\ available_modes \in ResLists
  /\ \E t \in Resolutions : target_width = t[1] /\ target_height = t[2]
  /\ NoDisplay
  /\ args = NoArgs
  /\ Untouched

InitMax ==
  /\ entry = "get_max_resolution"
  /\ SomeDisplay
  /\ available_modes = <<>> /\ target_width = 0 /\ target_height = 0
  /\ args = NoArgs
  /\ Untouched

InitProcess ==
  /\ entry = "process_monitor_settings"
  /\ SomeDisplay
  /\ args \in Args
  /\ available_modes = <<>> /\ target_width = 0 /\ target_height = 0
  /\ Untouched

Init == InitSelector \/ InitMax \/ InitProcess

FindClosest ==
  /\ entry = "find_closest_resolution" /\ ~done
  /\ \E rnd \in SUBSET TieProne(available_modes, target_width, target_height) :
       closest_mode' = find_closest_resolution(available_modes, target_width,
                                               target_height, rnd)
  /\ done' = TRUE
  /\ UNCHANGED <<entry, available_modes, target_width, target_height, primary,
                 display_modes, current, args, max_result, enum_calls, current_calls,
                 applied, printed>>

GetMax ==
  /\ entry = "get_max_resolution" /\ ~done
  /\ max_result' = get_max_resolution(primary, display_modes)
  /\ done' = TRUE
  /\ UNCHANGED <<entry, available_modes, target_width, target_height, closest_mode,
                 primary, display_modes, current, args, enum_calls, current_calls,
                 applied, printed>>

Process ==
  /\ entry = "process_monitor_settings" /\ ~done
  /\ \E uniq \in Orders(UniqueResolutions(display_modes)), ok \in BOOLEAN :
       \E rnd \in SUBSET (IF Truthy(args.width) /\ Truthy(args.height)
                          THEN TieProne(uniq, args.width[1], args.height[1])
                          ELSE {}) :
         LET out == process_monitor_settings(args, primary, display_modes, current,
                                             uniq, rnd, ok)
         IN  /\ args' = out.args
             /\ enum_calls' = out.enum_calls
             /\ current_calls' = out.current_calls
             /\ applied' = out.applied
             /\ printed' = out.printed
             /\ available_modes' = out.available_modes
             /\ closest_mode' = out.closest_mode
             /\ target_width' = out.target_width
             /\ target_height' = out.target_height
  /\ done' = TRUE
  /\ UNCHANGED <<entry, primary, display_modes, current, max_result>>

Next == FindClosest \/ GetMax \/ Process

\* Any of the three functions is called, once.
Spec == Init /\ [][Next]_vars

\* find_closest_resolution alone, on every list and target of the bounds
SpecSelector == InitSelector /\ [][FindClosest]_vars

\* get_max_resolution alone, on every display of the bounds
SpecMax == InitMax /\ [][GetMax]_vars

\* process_monitor_settings alone, on every command line and display
SpecProcess == InitProcess /\ [][Process]_vars

\* ------------------------------------------------------------- the claims
\* find_closest_resolution was called (directly, or by the --width/--height
\* path of process_monitor_settings) and has returned.
SelectorCalled == done /\ target_height # 0

W(mode) == ParseMode(mode)[1]

H(mode) == ParseMode(mode)[2]

\* the listed resolutions no larger than the target in both dimensions
SmallerSet ==
  {m \in Range(available_modes) : W(m) <= target_width /\ H(m) <= target_height}

SearchSet == IF SmallerSet # {} THEN SmallerSet ELSE Range(available_modes)

\* |w/h - targetW/targetH| < 0.01
Matching(m) == 100 * Abs(W(m) * target_height - target_width * H(m)) < H(m) * target_height

\* ratioDiff of m is strictly smaller than that of n
CloserRatio(m, n) ==
  Abs(W(m) * target_height - target_width * H(m)) * H(n)
    < Abs(W(n) * target_height - target_width * H(n)) * H(m)

\* |w*h - targetW*targetH|
PixelGap(m) == Abs(W(m) * H(m) - target_width * target_height)

\* No two listed resolutions tie on ratioDiff through different quotients:
\* float rounding plays no part in the scan.
NoRounding == TieProne(available_modes, target_width, target_height) = {}

\* the refresh rates enumerated for a resolution
RefreshesOf(width, height) ==
  {m[3] : m \in {n \in Range(display_modes) : n[1] = width /\ n[2] = height}}

\* C1: if the search set holds a ratio-matching resolution, the returned
\* resolution is ratio-matching.  (Stated for the scans rounding plays no
\* part in.)
C1_RatioMatchOutranks ==
  (SelectorCalled /\ NoRounding /\ \E m \in SearchSet : Matching(m))
    => (closest_mode # None /\ Matching(closest_mode))

\* C2: every order of the same set of resolutions returns the same
\* resolution.  (Stated for the scans rounding plays no part in.)
C2_OrderIndependent ==
  (SelectorCalled /\ NoRounding)
    => \A p \in Orders(Range(available_modes)) :
         find_closest_resolution(p, target_width, target_height, {}) = closest_mode

\* C3: shrink-first.  If some listed resolution is no larger than the target
\* in both dimensions, so is the returned one.
C3_ShrinkFirst ==
  (SelectorCalled /\ SmallerSet # {}) => closest_mode \in SmallerSet

\* C3 witness: a resolution larger than the target is ratio-matching and
\* closer in pixel count, and a smaller, non-matching one is returned.
C3_Witness ==
  /\ SelectorCalled
  /\ SmallerSet # {}
  /\ closest_mode \in SmallerSet
  /\ ~Matching(closest_mode)
  /\ \E m \in Range(available_modes) \ SmallerSet :
       Matching(m) /\ PixelGap(m) < PixelGap(closest_mode)

\* C4: when the returned resolution is ratio-matching, no ratio-matching
\* resolution of the search set is strictly closer to the target in pixel
\* count.  (Stated for the scans rounding plays no part in.)
C4_ClosestPixelsAmongMatching ==
  (SelectorCalled /\ NoRounding /\ closest_mode # None /\ Matching(closest_mode))
    => \A m \in SearchSet : Matching(m) => PixelGap(m) >= PixelGap(closest_mode)

\* C5: when no resolution of the search set is ratio-matching, the returned
\* resolution is in the search set and none there has a strictly smaller
\* ratioDiff.
C5_SmallestRatioDiff ==
  (SelectorCalled /\ SearchSet # {} /\ \A m \in SearchSet : ~Matching(m))
    => /\ closest_mode \in SearchSet
       /\ \A m \in SearchSet : ~CloserRatio(m, closest_mode)

\* C5 witness: nothing matches, the returned resolution is not the first
\* of the list and beats one that is closer in pixel count.
C5_Witness ==
  /\ SelectorCalled
  /\ \A m \in SearchSet : ~Matching(m)
  /\ closest_mode \in SearchSet
  /\ Head(available_modes) \in SearchSet
  /\ closest_mode # Head(available_modes)
  /\ \E m \in SearchSet : CloserRatio(closest_mode, m) /\ PixelGap(m) < PixelGap(closest_mode)

\* C6: on a non-empty list the selector returns an element of the list; on
\* an empty list it returns None, and process_monitor_settings then makes
\* no apply call.
C6_FailsOnlyOnEmpty ==
  /\ (SelectorCalled /\ available_modes # <<>>) => closest_mode \in Range(available_modes)
  /\ (SelectorCalled /\ available_modes = <<>>) => closest_mode = None
  /\ (SelectorCalled /\ entry = "process_monitor_settings" /\ closest_mode = None)
       => (applied = <<>> /\ printed = <<"no_suitable_mode">>)

\* C6 witness: every listed resolution is larger than the target in both
\* dimensions, and one of them is returned.
C6_Witness ==
  /\ SelectorCalled
  /\ Len(available_modes) >= 2
  /\ \A m \in Range(available_modes) : W(m) > target_width /\ H(m) > target_height
  /\ closest_mode \in Range(available_modes)

\* C7: in the --width/--height path with no refresh requested, the refresh
\* handed to the apply call is the current one if it is enumerated for the
\* chosen resolution and the maximum of the enumerated ones otherwise;
\* either way it is enumerated for the chosen resolution.
C7_RefreshFallback ==
  [][(/\ entry = "process_monitor_settings"
      /\ ~done
      /\ args.refresh = None
      /\ closest_mode' # None)
       => LET wh  == ParseMode(closest_mode')
              sup == RefreshesOf(wh[1], wh[2])
          IN  /\ Len(applied') = 1
              /\ applied'[1][1] = wh[1]
              /\ applied'[1][2] = wh[2]
              /\ applied'[1][3] \in sup
              /\ current[3] \in sup => applied'[1][3] = current[3]
              /\ current[3] \notin sup => \A r \in sup : r <= applied'[1][3]]_vars

\* C7 witness: no refresh was requested, the refresh of the current-mode
\* query is not enumerated for the chosen resolution, which has two rates,
\* and the higher one is applied.
C7_Witness ==
  /\ entry = "process_monitor_settings" /\ done
  /\ current_calls = 1
  /\ closest_mode # None
  /\ Len(applied) = 1
  /\ current[3] \notin RefreshesOf(applied[1][1], applied[1][2])
  /\ Cardinality(RefreshesOf(applied[1][1], applied[1][2])) >= 2
  /\ \A r \in RefreshesOf(applied[1][1], applied[1][2]) : r <= applied[1][3]

\* the distinct resolutions of the enumerated modes
Keys == {<<m[1], m[2]>> : m \in Range(display_modes)}

MaxRefreshOf(k) ==
  CHOOSE r \in RefreshesOf(k[1], k[2]) : \A q \in RefreshesOf(k[1], k[2]) : q <= r

\* C8: get_max_resolution returns an enumerated resolution of maximum pixel
\* count; among those that tie on pixel count it returns one of highest
\* maximum refresh rate, together with that refresh rate.
C8_MaxSelection ==
  (entry = "get_max_resolution" /\ done /\ primary /\ display_modes # <<>>)
    => LET k == <<max_result[1], max_result[2]>>
       IN  /\ k \in Keys
           /\ \A j \in Keys : j[1] * j[2] <= k[1] * k[2]
           /\ \A j \in Keys : j[1] * j[2] = k[1] * k[2] => MaxRefreshOf(j) <= MaxRefreshOf(k)
           /\ max_result[3] = MaxRefreshOf(k)

\* C9: with a primary monitor and exactly one of --width and --height given,
\* the error is reported and no mode enumeration, current-mode query or
\* apply call is made, whatever the other flags.
C9_ValidationFirst ==
  (/\ entry = "process_monitor_settings" /\ done /\ primary
   /\ (args.width = None) # (args.height = None))
    => /\ printed = <<"need_width_and_height">>
       /\ enum_calls = 0
       /\ current_calls = 0
       /\ applied = <<>>

\* C10: if the requested resolution is itself in the list, it is the one
\* returned; process_monitor_settings then prints no substitution notice
\* and applies the requested width and height.
C10_ExactMatchWins ==
  (SelectorCalled /\ ModeStr(target_width, target_height) \in Range(available_modes))
    => /\ closest_mode = ModeStr(target_width, target_height)
       /\ entry = "process_monitor_settings"
            => /\ printed \in {<<"set_ok">>, <<"set_failed">>}
               /\ Len(applied) = 1
               /\ applied[1][1] = args.width[1]
               /\ applied[1][2] = args.height[1]

\* C10 witness: the requested resolution is enumerated but is not the first
\* of the list; it is applied with no notice.
C10_Witness ==
  /\ SelectorCalled
  /\ entry = "process_monitor_settings"
  /\ Len(available_modes) >= 2
  /\ available_modes[2] = ModeStr(target_width, target_height)
  /\ closest_mode = available_modes[2]
  /\ applied = <<<<target_width, target_height, args.refresh[1]>>>>
  /\ printed = <<"set_ok">>

====
